---- MODULE Spec2Model ----
(***************************************************************************)
(* Model of components/rendering/src/shortcode/parse.rs: the shortcode     *)
(* locator fetch_shortcodes, its two logos lexers (Openers, Closers), and  *)
(* the span arithmetic of ShortcodeContext (range_shift,                   *)
(* get_range_relation, update_on_source_insert, shift_span), and of the    *)
(* command src/cmd/newpost.rs.                                             *)
(*                                                                         *)
(* Strings are sequences of one-character strings; a byte offset p of the  *)
(* source is the position before element p+1, so the Rust slice s[a..b] is *)
(* SubSeq(s, a+1, b).  All characters of the inputs are ASCII, so byte     *)
(* offsets and character offsets coincide.                                 *)
(***************************************************************************)
EXTENDS Integers, Sequences, FiniteSets, TLC

VARIABLES
    source,        \* fetch_shortcodes: the argument `source`
    lex,           \* the Openers lexer: [start, end] of its last token (lex.span()); scanning resumes at lex.end
    output_str,    \* the rewritten string being assembled
    last_lex_end,  \* the copy cursor into source
    current_body,  \* Option<BodiedStackItem>: <<>> is None, <<item>> is Some(item)
    shortcodes,    \* Vec<ShortcodeContext>
    pc,            \* "loop" (inside the while loop), "done" (returned), "panic" (a slice or subtraction failed)
    hist,          \* history: one record per loop iteration (token, branch taken, cursors before the step)
    span,          \* ShortcodeContext.span of the descriptor update_on_source_insert is called on
    span0,         \* history: the span before the call
    position,      \* update_on_source_insert: argument position
    original_length, \* update_on_source_insert: argument original_length
    new_length,    \* update_on_source_insert: argument new_length
    upc,           \* "idle", "call" (before the call), "returned", "panic" (unwrap on None),
                   \* "shifted" / "shift_panic" (shift_span returned / its unwrap failed)
    shift_call,    \* history: <<>> or <<[translation, do_shift_right, result]>>, the range_shift call of shift_span
    np_pc,         \* newpost: "idle", "start", "prompt", "check", "mkdir", "write", "returned"
    np_err,        \* newpost: <<>> (no error so far, or Ok(())) or <<message>> of the Err returned
    title,         \* newpost: the line read_line_with_prompt returned
    date_str,      \* newpost: Local::now() formatted with "%Y-%m-%d"
    fs,            \* the file system: [dir |-> the content directory exists, files |-> names of the files in it]
    fs0,           \* history: the file system when newpost was called
    written        \* history: the file names create_file has written

fetch_vars == <<source, lex, output_str, last_lex_end, current_body, shortcodes, pc, hist>>
update_vars == <<span, span0, position, original_length, new_length, upc, shift_call>>
vars == <<source, lex, output_str, last_lex_end, current_body, shortcodes, pc, hist,
          span, span0, position, original_length, new_length, upc, shift_call,
          np_pc, np_err, title, date_str, fs, fs0, written>>
newpost_vars == <<np_pc, np_err, title, date_str, fs, fs0, written>>

\* newpost is not running
NewpostIdle ==
    /\ np_pc = "idle"
    /\ np_err = <<>>
    /\ title = <<>>
    /\ date_str = <<>>
    /\ fs = [dir |-> FALSE, files |-> {}]
    /\ fs0 = fs
    /\ written = {}

----------------------------------------------------------------------------
(* Bounds of the model *)

\* the source is a concatenation of at most MaxPieces pieces of Pieces
MaxPieces == 4
\* under the fairness specification the source has at most MaxFairPieces pieces
MaxFairPieces == 3
\* update_on_source_insert: span bounds and position range over 0..MaxOffset
MaxOffset == 5
\* update_on_source_insert: original_length and new_length range over 0..MaxEditLen
MaxEditLen == 6
\* newpost: the title entered has at most MaxTitleLen characters
MaxTitleLen == 2

----------------------------------------------------------------------------
(* Characters and slices *)

\* const SHORTCODE_PLACEHOLDER: &str = "{{SC()}}"
SHORTCODE_PLACEHOLDER == <<"{", "{", "S", "C", "(", ")", "}", "}">>

\* the character class [ \t\n\f] of the lexer regexes
Whitespace == {" ", "\t", "\n", "\f"}

\* the byte at offset p, "" at or past the end of input
At(s, p) == IF p >= 0 /\ p < Len(s) THEN s[p + 1] ELSE ""

\* whether the Rust slice s[a..b] is in bounds (otherwise the slice panics)
SliceOk(s, a, b) == a >= 0 /\ a <= b /\ b <= Len(s)

\* the Rust slice s[a..b]
Slice(s, a, b) == SubSeq(s, a + 1, b)

\* end of the maximal run of characters of `class` that starts at offset p
RECURSIVE RunEnd(_, _, _)
RunEnd(s, p, class) ==
    IF p < Len(s) /\ s[p + 1] \in class THEN RunEnd(s, p + 1, class) ELSE p

\* end of the maximal run [ \t\n\f]* that starts at offset p
SkipWhitespace(s, p) == RunEnd(s, p, Whitespace)

\* end of the maximal run of characters outside `stop` that starts at offset p
RECURSIVE SkipUntil(_, _, _)
SkipUntil(s, p, stop) ==
    IF p < Len(s) /\ s[p + 1] \notin stop THEN SkipUntil(s, p + 1, stop) ELSE p

----------------------------------------------------------------------------
(* The Openers lexer (logos): longest match at the current offset *)

\* the value of `lex.next()` at end of input
NoToken(s) == [tag |-> "None", start |-> Len(s), end |-> Len(s)]

\* regex ([{]%)([ \t\n\f]*)[eE][nN][dD]([ \t\n\f]*)(%[}]) matched at offset p:
\* the offset after the match, -1 when it does not match there
EndBlockEnd(s, p) ==
    IF At(s, p) = "{" /\ At(s, p + 1) = "%"
    THEN LET a == SkipWhitespace(s, p + 2)
         IN  IF /\ At(s, a) \in {"e", "E"}
                /\ At(s, a + 1) \in {"n", "N"}
                /\ At(s, a + 2) \in {"d", "D"}
             THEN LET b == SkipWhitespace(s, a + 3)
                  IN  IF At(s, b) = "%" /\ At(s, b + 1) = "}" THEN b + 2 ELSE -1
             ELSE -1
    ELSE -1

\* the token that starts at offset p, where the byte at p is `{`:
\* EndBlock beats Body because it is the longer match; a `{` that starts no
\* token is the one-byte Error token
OpenersAt(s, p) ==
    IF EndBlockEnd(s, p) >= 0
    THEN [tag |-> "EndBlock", start |-> p, end |-> EndBlockEnd(s, p)]
    ELSE IF At(s, p + 1) = "%"
    THEN [tag |-> "Body", start |-> p, end |-> SkipWhitespace(s, p + 2)]
    ELSE IF At(s, p + 1) = "{"
    THEN [tag |-> "Normal", start |-> p, end |-> SkipWhitespace(s, p + 2)]
    ELSE [tag |-> "Error", start |-> p, end |-> p + 1]

\* lex.next() with the lexer at offset p: the run [^{]+ is skipped
OpenersNext(s, p) ==
    LET q == SkipUntil(s, p, {"{"})
    IN  IF q >= Len(s) THEN NoToken(s) ELSE OpenersAt(s, q)

----------------------------------------------------------------------------
(* The Closers lexer (logos) *)

\* the token at offset p once the run [^%}]+ has been skipped (none is left at p)
ClosersAt(s, p) ==
    IF p >= Len(s)
    THEN NoToken(s)
    ELSE IF At(s, p) = "%" /\ At(s, p + 1) = "}"
    THEN [tag |-> "Body", start |-> p, end |-> p + 2]
    ELSE IF At(s, p) = "}" /\ At(s, p + 1) = "}"
    THEN [tag |-> "Normal", start |-> p, end |-> p + 2]
    ELSE [tag |-> "Error", start |-> p, end |-> p + 1]

\* closing.next() with the lexer at offset p: [ \t\n\f]*%[}] and [ \t\n\f]*[}][}]
\* are longer than the skipped run [^%}]+ whenever they match at p; otherwise
\* the run is skipped and the next token starts at a `%` or a `}`
ClosersNext(s, p) ==
    LET w == SkipWhitespace(s, p)
    IN  IF At(s, w) = "%" /\ At(s, w + 1) = "}"
        THEN [tag |-> "Body", start |-> p, end |-> w + 2]
        ELSE IF At(s, w) = "}" /\ At(s, w + 1) = "}"
        THEN [tag |-> "Normal", start |-> p, end |-> w + 2]
        ELSE ClosersAt(s, SkipUntil(s, p, {"%", "}"}))

----------------------------------------------------------------------------
(* The tag parser InnerTag::lex_parse (inner_tag.rs is not among the       *)
(* sources; modelled from the specification, section 4.2)                  *)

IdentStart ==
    {"a", "b", "c", "d", "e", "f", "g", "h", "i", "j", "k", "l", "m",
     "n", "o", "p", "q", "r", "s", "t", "u", "v", "w", "x", "y", "z",
     "A", "B", "C", "D", "E", "F", "G", "H", "I", "J", "K", "L", "M",
     "N", "O", "P", "Q", "R", "S", "T", "U", "V", "W", "X", "Y", "Z", "_"}

IdentChar == IdentStart \cup {"0", "1", "2", "3", "4", "5", "6", "7", "8", "9"}

\* end of the maximal run of identifier characters that starts at offset p
IdentEnd(s, p) == RunEnd(s, p, IdentChar)

\* identifier "(" ")" at offset p: the name and the offset just after the
\* closing parenthesis.  The inputs of the model carry no arguments, so the
\* argument list is always empty.
InnerTagParse(s, p) ==
    LET i == IdentEnd(s, p)
    IN  IF At(s, p) \in IdentStart /\ At(s, i) = "(" /\ At(s, i + 1) = ")"
        THEN [ok |-> TRUE, name |-> Slice(s, p, i), args |-> <<>>, end |-> i + 2]
        ELSE [ok |-> FALSE, name |-> <<>>, args |-> <<>>, end |-> p]

----------------------------------------------------------------------------
(* Inputs *)

\* the pieces sources are built from
Pieces ==
    { <<"{", "%", " ", "a", "(", ")", " ", "%", "}">>,       \* {% a() %}   body opener
      <<"{", "{", " ", "b", "(", ")", " ", "}", "}">>,       \* {{ b() }}   self-closing
      <<"{", "%", " ", "e", "n", "d", " ", "%", "}">>,       \* {% end %}   end marker
      <<"x">>,                                               \* x           plain text
      <<"{", "{", "c", "(", ")", "%", "}">>,                 \* {{c()%}     `{{` closed by `%}`
      <<"{", "%", "c", "(", ")", "}", "}">>,                 \* {%c()}}     `{%` closed by `}}`
      <<"{">>,                                               \* {           lone brace; `{{x` is rejected by the tag parser
      <<"{", "{", "c", "(", ")">>,                           \* {{c()       no closer
      <<"{", "{", "S", "C", "(", ")", "}", "}">> }           \* {{SC()}}    a directive that reads like the placeholder

\* tests::embedding_bodies: "{% a() %}{% a() %}Wow!{% end %}{% end %}"
EmbeddingBodies ==
    <<"{", "%", " ", "a", "(", ")", " ", "%", "}">> \o
    <<"{", "%", " ", "a", "(", ")", " ", "%", "}">> \o
    <<"W", "o", "w", "!">> \o
    <<"{", "%", " ", "e", "n", "d", " ", "%", "}">> \o
    <<"{", "%", " ", "e", "n", "d", " ", "%", "}">>

\* a tag with text between its closing parenthesis and the closer: "{{ c()x }}"
TextBeforeCloser == <<"{", "{", " ", "c", "(", ")", "x", " ", "}", "}">>

\* the sources: every concatenation of at most MaxPieces pieces, the input of
\* tests::embedding_bodies, and a tag with text before its closer
Sources ==
    LET step[n \in 0..MaxPieces] ==
            IF n = 0 THEN {<<>>}
            ELSE step[n - 1] \cup {p \o s : p \in Pieces, s \in step[n - 1]}
    IN  step[MaxPieces] \cup {EmbeddingBodies, TextBeforeCloser}

----------------------------------------------------------------------------
(* fetch_shortcodes *)

\* variant of CopyChunk: the copy starts one byte late
CopyChunkLate(out, src, from, to) == out \o Slice(src, from + 1, to)

\* output_str.push_str(&source[last_lex_end..lex.span().start])
CopyChunk(out, src, from, to) == out \o Slice(src, from, to)

\* variant of CopyCursor: the cursor is put after the opener
CopyCursorAfterOpener(tok) == tok.end

\* last_lex_end = lex.span().start
CopyCursor(tok) == tok.start

\* let openblock_span = output_str.len()..(output_str.len() + SHORTCODE_PLACEHOLDER.len())
OpenblockSpan(out) == [start |-> Len(out), end |-> Len(out) + Len(SHORTCODE_PLACEHOLDER)]

\* variant of ClosedSpan: the span is taken forward from the end of the output,
\* as it is for an opener, although the placeholder is already written
ClosedSpanForward(out, openblock_span) ==
    [start |-> Len(out), end |-> Len(out) + (openblock_span.end - openblock_span.start)]

\* span: output_str.len() - openblock_span.len()..output_str.len()
ClosedSpan(out, openblock_span) ==
    [start |-> Len(out) - (openblock_span.end - openblock_span.start), end |-> Len(out)]

\* variant of BodyText: the slice runs to the end of the end marker
BodyTextThroughEnd(src, body_start, tok) == Slice(src, body_start, tok.end)

\* let body = Some(String::from(&source[body_start..lex.span().start]))
BodyText(src, body_start, tok) == Slice(src, body_start, tok.start)

\* variant of PushShortcode: the descriptor is inserted at the front
PushShortcodeFront(list, d) == <<d>> \o list

\* shortcodes.push(ShortcodeContext { .. })
PushShortcode(list, d) == Append(list, d)

\* variant of BodyIsOpen: the check of line 175 is missing
BodyIsOpenUnchecked == FALSE

\* if current_body.is_some() { continue; }
BodyIsOpen == current_body # <<>>

\* variant of Resume: line 226 is missing, the Openers lexer stays after the opener
ResumeAfterOpener(tok, close) == [start |-> tok.start, end |-> tok.end]

\* lex = closing.morph(): the Openers lexer resumes where the Closers lexer stands
Resume(tok, close) == [start |-> close.start, end |-> close.end]

\* variant of MismatchResume: the Openers lexer is put back at the start of the opener
MismatchResumeAtOpener(tok, close) == [start |-> tok.start, end |-> tok.start]

\* variant of MismatchResume: the arm falls through to line 226
MismatchResumeAfterCloser(tok, close) == [start |-> close.start, end |-> close.end]

\* `continue` in the arm `_ => { /* Tags don't match */ }`: lex is not replaced
MismatchResume(tok, close) == [start |-> tok.start, end |-> tok.end]

\* variant of SpuriousCursor: line 168 stands outside the if-let
SpuriousCursorAdvanced(lle, tok) == tok.end

\* an end marker with no body open leaves last_lex_end alone (line 168 is inside the if-let)
SpuriousCursor(lle, tok) == lle

\* lex.next(): the next token of the Openers lexer
Tok == OpenersNext(source, lex.end)

\* InnerTag::lex_parse(lex.clone().morph())
Inner == InnerTagParse(source, Tok.end)

\* closing.next()
Close == ClosersNext(source, Inner.end)

\* the record of one loop iteration: the token, the branch taken, and the
\* values of the cursors, the buffers and the body flag before the step
Step(tok, res) ==
    [tag |-> tok.tag, start |-> tok.start, end |-> tok.end, res |-> res,
     out_before |-> Len(output_str), lle_before |-> last_lex_end,
     n_before |-> Len(shortcodes), body_before |-> (current_body # <<>>),
     lex_before |-> lex.end]

\* a failed slice or subtraction
Panic ==
    /\ pc' = "panic"
    /\ UNCHANGED <<source, lex, output_str, last_lex_end, current_body, shortcodes, hist>>

Init ==
    /\ source \in Sources
    /\ lex = [start |-> 0, end |-> 0]
    /\ output_str = <<>>
    /\ last_lex_end = 0
    /\ current_body = <<>>
    /\ shortcodes = <<>>
    /\ pc = "loop"
    /\ hist = <<>>
    /\ span = [start |-> 0, end |-> 0]
    /\ span0 = [start |-> 0, end |-> 0]
    /\ position = 0
    /\ original_length = 0
    /\ new_length = 0
    /\ upc = "idle"
    /\ shift_call = <<>>
    /\ NewpostIdle

\* an end marker closes the open body (lines 154-171)
EndBlockClose(tok, inner, close) ==
    /\ pc = "loop"
    /\ tok.tag = "EndBlock"
    /\ current_body # <<>>
    /\ LET item == current_body[1]
       IN  IF /\ SliceOk(source, item.body_start, tok.start)
              /\ Len(output_str) >= item.openblock_span.end - item.openblock_span.start
           THEN /\ shortcodes' = PushShortcode(shortcodes,
                        [name |-> item.name, args |-> item.args,
                         span |-> ClosedSpan(output_str, item.openblock_span),
                         body |-> <<BodyText(source, item.body_start, tok)>>])
                /\ current_body' = <<>>
                /\ last_lex_end' = tok.end
                /\ lex' = [start |-> tok.start, end |-> tok.end]
                /\ hist' = Append(hist, Step(tok, "end_close"))
                /\ UNCHANGED <<source, output_str, pc>>
           ELSE Panic
    /\ UNCHANGED <<update_vars, newpost_vars>>

\* an end marker while no body is open (lines 154-171)
EndBlockSpurious(tok, inner, close) ==
    /\ pc = "loop"
    /\ tok.tag = "EndBlock"
    /\ current_body = <<>>
    /\ last_lex_end' = SpuriousCursor(last_lex_end, tok)
    /\ lex' = [start |-> tok.start, end |-> tok.end]
    /\ hist' = Append(hist, Step(tok, "end_spurious"))
    /\ UNCHANGED <<source, output_str, current_body, shortcodes, pc>>
    /\ UNCHANGED <<update_vars, newpost_vars>>

\* an opener inside an open body is skipped (lines 174-177)
SkipInBody(tok, inner, close) ==
    /\ pc = "loop"
    /\ tok.tag \in {"Body", "Normal", "Error"}
    /\ BodyIsOpen
    /\ lex' = [start |-> tok.start, end |-> tok.end]
    /\ hist' = Append(hist, Step(tok, "in_body"))
    /\ UNCHANGED <<source, output_str, last_lex_end, current_body, shortcodes, pc>>
    /\ UNCHANGED <<update_vars, newpost_vars>>

\* the guard shared by the branches that attempt a directive: the token is
\* no end marker and line 175 did not skip it
Attempt(tok) ==
    /\ pc = "loop"
    /\ tok.tag \in {"Body", "Normal", "Error"}
    /\ ~BodyIsOpen

\* the tag parser rejects the content after the opener (line 184 fails)
TagError(tok, inner, close) ==
    /\ Attempt(tok)
    /\ ~inner.ok
    /\ IF SliceOk(source, last_lex_end, tok.start)
       THEN /\ output_str' = CopyChunk(output_str, source, last_lex_end, tok.start)
            /\ last_lex_end' = CopyCursor(tok)
            /\ lex' = [start |-> tok.start, end |-> tok.end]
            /\ hist' = Append(hist, Step(tok, "tag_error"))
            /\ UNCHANGED <<source, current_body, shortcodes, pc>>
       ELSE Panic
    /\ UNCHANGED <<update_vars, newpost_vars>>

\* the tag parses and no closer token follows (line 189 yields None, line 226)
NoCloser(tok, inner, close) ==
    /\ Attempt(tok)
    /\ inner.ok
    /\ close.tag = "None"
    /\ IF SliceOk(source, last_lex_end, tok.start)
       THEN /\ output_str' = CopyChunk(output_str, source, last_lex_end, tok.start)
            /\ last_lex_end' = CopyCursor(tok)
            /\ lex' = Resume(tok, close)
            /\ hist' = Append(hist, Step(tok, "no_closer"))
            /\ UNCHANGED <<source, current_body, shortcodes, pc>>
       ELSE Panic
    /\ UNCHANGED <<update_vars, newpost_vars>>

\* `{{ name(args) }}` (lines 195-205, 226)
NormalShortcode(tok, inner, close) ==
    /\ Attempt(tok)
    /\ inner.ok
    /\ tok.tag = "Normal"
    /\ close.tag = "Normal"
    /\ IF SliceOk(source, last_lex_end, tok.start)
       THEN LET copied == CopyChunk(output_str, source, last_lex_end, tok.start)
            IN  /\ output_str' = copied \o SHORTCODE_PLACEHOLDER
                /\ last_lex_end' = close.end
                /\ shortcodes' = PushShortcode(shortcodes,
                        [name |-> inner.name, args |-> inner.args,
                         span |-> OpenblockSpan(copied), body |-> <<>>])
                /\ lex' = Resume(tok, close)
                /\ hist' = Append(hist, Step(tok, "normal"))
                /\ UNCHANGED <<source, current_body, pc>>
       ELSE Panic
    /\ UNCHANGED <<update_vars, newpost_vars>>

\* `{% name(args) %}` (lines 207-217, 226)
BodyOpen(tok, inner, close) ==
    /\ Attempt(tok)
    /\ inner.ok
    /\ tok.tag = "Body"
    /\ close.tag = "Body"
    /\ IF SliceOk(source, last_lex_end, tok.start)
       THEN LET copied == CopyChunk(output_str, source, last_lex_end, tok.start)
            IN  /\ output_str' = copied \o SHORTCODE_PLACEHOLDER
                /\ last_lex_end' = close.end
                /\ current_body' = <<[name |-> inner.name, args |-> inner.args,
                                      openblock_span |-> OpenblockSpan(copied),
                                      body_start |-> close.end]>>
                /\ lex' = Resume(tok, close)
                /\ hist' = Append(hist, Step(tok, "body_open"))
                /\ UNCHANGED <<source, shortcodes, pc>>
       ELSE Panic
    /\ UNCHANGED <<update_vars, newpost_vars>>

\* opener and closer do not pair up (lines 219-222)
Mismatch(tok, inner, close) ==
    /\ Attempt(tok)
    /\ inner.ok
    /\ close.tag # "None"
    /\ ~(tok.tag = "Normal" /\ close.tag = "Normal")
    /\ ~(tok.tag = "Body" /\ close.tag = "Body")
    /\ IF SliceOk(source, last_lex_end, tok.start)
       THEN /\ output_str' = CopyChunk(output_str, source, last_lex_end, tok.start)
            /\ last_lex_end' = CopyCursor(tok)
            /\ lex' = MismatchResume(tok, close)
            /\ hist' = Append(hist, Step(tok, "mismatch"))
            /\ UNCHANGED <<source, current_body, shortcodes, pc>>
       ELSE Panic
    /\ UNCHANGED <<update_vars, newpost_vars>>

\* the lexer is exhausted: push the last chunk and return (lines 230-233)
Finish(tok, inner, close) ==
    /\ pc = "loop"
    /\ tok.tag = "None"
    /\ IF SliceOk(source, last_lex_end, Len(source))
       THEN /\ output_str' = CopyChunk(output_str, source, last_lex_end, Len(source))
            /\ pc' = "done"
            /\ lex' = [start |-> tok.start, end |-> tok.end]
            /\ hist' = Append(hist, Step(tok, "finish"))
            /\ UNCHANGED <<source, last_lex_end, current_body, shortcodes>>
       ELSE Panic
    /\ UNCHANGED <<update_vars, newpost_vars>>

\* one loop iteration, or the return: the token, the tag parse behind it and
\* the closer behind that are read once and handed to the branch taken
Next ==
    \E tok \in {OpenersNext(source, lex.end)} :
    \E inner \in {InnerTagParse(source, tok.end)} :
    \E close \in {ClosersNext(source, inner.end)} :
        \/ EndBlockClose(tok, inner, close)
        \/ EndBlockSpurious(tok, inner, close)
        \/ SkipInBody(tok, inner, close)
        \/ TagError(tok, inner, close)
        \/ NoCloser(tok, inner, close)
        \/ NormalShortcode(tok, inner, close)
        \/ BodyOpen(tok, inner, close)
        \/ Mismatch(tok, inner, close)
        \/ Finish(tok, inner, close)

Spec == Init /\ [][Next]_vars

\* the sources of the fairness specification: at most MaxFairPieces pieces,
\* and the two inputs given in full
FairSources ==
    LET step[n \in 0..MaxFairPieces] ==
            IF n = 0 THEN {<<>>}
            ELSE step[n - 1] \cup {p \o s : p \in Pieces, s \in step[n - 1]}
    IN  step[MaxFairPieces] \cup {EmbeddingBodies, TextBeforeCloser}

InitFair == Init /\ source \in FairSources

\* the loop of lines 152-228 is sequential code: an iteration that can run does run
SpecFair == InitFair /\ [][Next]_vars /\ WF_vars(Next)

----------------------------------------------------------------------------
(* Span arithmetic of ShortcodeContext *)

\* variant of range_shift: a left shift that would land exactly on offset 0 is refused too
range_shift_refusing_zero(range, translation, do_shift_right) ==
    IF ~do_shift_right
    THEN IF range.start <= translation
         THEN [some |-> FALSE, range |-> range]
         ELSE [some |-> TRUE,
               range |-> [start |-> range.start - translation, end |-> range.end - translation]]
    ELSE [some |-> TRUE,
          range |-> [start |-> range.start + translation, end |-> range.end + translation]]

\* Option<Range<usize>>: None when a left shift would take range.start below 0.
\* Offsets are bounded by string lengths, so a right shift stays far below 2^64.
range_shift(range, translation, do_shift_right) ==
    IF ~do_shift_right
    THEN IF range.start < translation
         THEN [some |-> FALSE, range |-> range]
         ELSE [some |-> TRUE,
               range |-> [start |-> range.start - translation, end |-> range.end - translation]]
    ELSE [some |-> TRUE,
          range |-> [start |-> range.start + translation, end |-> range.end + translation]]

\* variant of get_range_relation: a position at span.start counts as before the span
get_range_relation_inclusive(sp, pos) ==
    IF pos <= sp.start THEN "Before"
    ELSE IF pos >= sp.end THEN "After"
    ELSE "Within"

\* match (position < self.span.start, position >= self.span.end)
get_range_relation(sp, pos) ==
    IF pos < sp.start THEN "Before"
    ELSE IF pos >= sp.end THEN "After"
    ELSE "Within"

\* variant of Delta: a shrinking edit shifts by its original length
DeltaOriginal(orig, new) == IF orig < new THEN new - orig ELSE orig

\* let delta = if original_length < new_length { new - original } else { original - new }
Delta(orig, new) == IF orig < new THEN new - orig ELSE orig - new

\* the spans the call is made on: start <= end, as the comment at line 98 states
Spans == {sp \in [start : 0..MaxOffset, end : 0..MaxOffset] : sp.start <= sp.end}

InitUpdate ==
    /\ source = <<>>
    /\ lex = [start |-> 0, end |-> 0]
    /\ output_str = <<>>
    /\ last_lex_end = 0
    /\ current_body = <<>>
    /\ shortcodes = <<>>
    /\ pc = "idle"
    /\ hist = <<>>
    /\ span \in Spans
    /\ span0 = span
    /\ position \in 0..MaxOffset
    /\ original_length \in 0..MaxEditLen
    /\ new_length \in 0..MaxEditLen
    /\ upc = "call"
    /\ shift_call = <<>>
    /\ NewpostIdle

\* ShortcodeContext::update_on_source_insert (lines 106-124)
UpdateOnSourceInsert ==
    /\ upc = "call"
    /\ LET shifted == range_shift(span, Delta(original_length, new_length),
                                  original_length < new_length)
       IN  IF get_range_relation(span, position) = "Before"
           THEN IF shifted.some
                THEN span' = shifted.range /\ upc' = "returned"
                ELSE span' = span /\ upc' = "panic"
           ELSE span' = span /\ upc' = "returned"
    /\ UNCHANGED <<span0, position, original_length, new_length, shift_call>>
    /\ UNCHANGED <<fetch_vars, newpost_vars>>

\* ShortcodeContext::shift_span (lines 89-92): self.span = range_shift(..).unwrap()
ShiftSpan ==
    /\ upc = "call"
    /\ \E translation \in 0..MaxEditLen, do_shift_right \in BOOLEAN :
          LET result == range_shift(span, translation, do_shift_right)
          IN  /\ shift_call' = <<[translation |-> translation,
                                  do_shift_right |-> do_shift_right,
                                  result |-> result]>>
              /\ IF result.some
                 THEN span' = result.range /\ upc' = "shifted"
                 ELSE span' = span /\ upc' = "shift_panic"
    /\ UNCHANGED <<span0, position, original_length, new_length>>
    /\ UNCHANGED <<fetch_vars, newpost_vars>>

NextUpdate == UpdateOnSourceInsert \/ ShiftSpan

SpecUpdate == InitUpdate /\ [][NextUpdate]_vars

----------------------------------------------------------------------------
(* The command newpost (src/cmd/newpost.rs).  Site::new,                   *)
(* read_line_with_prompt, create_directory and create_file belong to other *)
(* crates: each either fails, and the `?` returns its error, or succeeds   *)
(* with the effect its name states.                                        *)

Digit(n) == <<"0", "1", "2", "3", "4", "5", "6", "7", "8", "9">>[n + 1]
\* %m and %d: two digits, zero padded
Pad2(n) == <<Digit((n \div 10) % 10), Digit(n % 10)>>
\* %Y: four digits
Pad4(n) == Pad2(n \div 100) \o Pad2(n % 100)

\* date.format("%Y-%m-%d").to_string()
FormatDate(d) == Pad4(d.year) \o <<"-">> \o Pad2(d.month) \o <<"-">> \o Pad2(d.day)

\* the values of Local::now()
Dates == { [year |-> 2026, month |-> 11, day |-> 1],
           [year |-> 2027, month |-> 1, day |-> 31] }

\* the lines read_line_with_prompt returns: at most MaxTitleLen characters
TitleChars == {"a", "b"}
Titles == UNION {[1..n -> TitleChars] : n \in 0..MaxTitleLen}

\* date_str.clone() + "-" + title.as_str() + ".md"
file_name(date, t) == date \o <<"-">> \o t \o <<".", "m", "d">>

\* variant of is_empty: the test of line 20 inverted
is_empty_inverted(t) == Len(t) # 0

\* title.is_empty()
is_empty(t) == Len(t) = 0

\* the file system before the call: no content directory, an empty one, or
\* one that holds a post already
InitialFileSystems ==
    {[dir |-> FALSE, files |-> {}], [dir |-> TRUE, files |-> {}]} \cup
    {[dir |-> TRUE, files |-> {file_name(FormatDate(d), t)}] : d \in Dates, t \in Titles}

InitNewpost ==
    /\ source = <<>>
    /\ lex = [start |-> 0, end |-> 0]
    /\ output_str = <<>>
    /\ last_lex_end = 0
    /\ current_body = <<>>
    /\ shortcodes = <<>>
    /\ pc = "idle"
    /\ hist = <<>>
    /\ span = [start |-> 0, end |-> 0]
    /\ span0 = [start |-> 0, end |-> 0]
    /\ position = 0
    /\ original_length = 0
    /\ new_length = 0
    /\ upc = "idle"
    /\ shift_call = <<>>
    /\ np_pc = "start"
    /\ np_err = <<>>
    /\ title = <<>>
    /\ date_str = <<>>
    /\ fs \in InitialFileSystems
    /\ fs0 = fs
    /\ written = {}

\* return Err(..): by `?` or by line 21
NewpostErr(msg) ==
    /\ np_pc' = "returned"
    /\ np_err' = <<msg>>

\* let site = Site::new(root_dir, config_file)?  (line 17)
NewpostSiteNew ==
    /\ np_pc = "start"
    /\ \/ np_pc' = "prompt" /\ UNCHANGED np_err
       \/ NewpostErr("Site::new failed")
    /\ UNCHANGED <<title, date_str, fs, fs0, written>>
    /\ UNCHANGED <<fetch_vars, update_vars>>

\* let title = read_line_with_prompt("Enter post title: ")?  (line 18)
NewpostReadTitle ==
    /\ np_pc = "prompt"
    /\ \/ \E t \in Titles : title' = t /\ np_pc' = "check" /\ UNCHANGED np_err
       \/ NewpostErr("read_line_with_prompt failed") /\ UNCHANGED title
    /\ UNCHANGED <<date_str, fs, fs0, written>>
    /\ UNCHANGED <<fetch_vars, update_vars>>

\* if title.is_empty() { return Err(Error::msg("No title specified")) }  (lines 20-22)
NewpostCheckTitle ==
    /\ np_pc = "check"
    /\ IF is_empty(title)
       THEN NewpostErr("No title specified")
       ELSE np_pc' = "mkdir" /\ UNCHANGED np_err
    /\ UNCHANGED <<title, date_str, fs, fs0, written>>
    /\ UNCHANGED <<fetch_vars, update_vars>>

\* create_directory(&site.content_path)?  (line 25)
NewpostCreateDirectory ==
    /\ np_pc = "mkdir"
    /\ \/ fs' = [fs EXCEPT !.dir = TRUE] /\ np_pc' = "write" /\ UNCHANGED np_err
       \/ NewpostErr("create_directory failed") /\ UNCHANGED fs
    /\ UNCHANGED <<title, date_str, fs0, written>>
    /\ UNCHANGED <<fetch_vars, update_vars>>

\* the date, the file name, create_file(&new_post_path, ..)? and Ok(())  (lines 28-42)
NewpostCreateFile ==
    /\ np_pc = "write"
    /\ \E d \in Dates :
          /\ date_str' = FormatDate(d)
          /\ \/ /\ fs' = [fs EXCEPT !.files = @ \cup {file_name(FormatDate(d), title)}]
                /\ written' = written \cup {file_name(FormatDate(d), title)}
                /\ np_pc' = "returned"
                /\ UNCHANGED np_err
             \/ NewpostErr("create_file failed") /\ UNCHANGED <<fs, written>>
    /\ UNCHANGED <<title, fs0>>
    /\ UNCHANGED <<fetch_vars, update_vars>>

NextNewpost ==
    \/ NewpostSiteNew
    \/ NewpostReadTitle
    \/ NewpostCheckTitle
    \/ NewpostCreateDirectory
    \/ NewpostCreateFile

SpecNewpost == InitNewpost /\ [][NextNewpost]_vars

----------------------------------------------------------------------------
(* Vocabulary of the claims: reading the history *)

PlaceholderLen == Len(SHORTCODE_PLACEHOLDER)

\* the values after loop iteration i: those before iteration i+1, or the current ones
OutAfter(i) == IF i < Len(hist) THEN hist[i + 1].out_before ELSE Len(output_str)
NAfter(i) == IF i < Len(hist) THEN hist[i + 1].n_before ELSE Len(shortcodes)
LleAfter(i) == IF i < Len(hist) THEN hist[i + 1].lle_before ELSE last_lex_end
BodyAfter(i) == IF i < Len(hist) THEN hist[i + 1].body_before ELSE current_body # <<>>
LexAfter(i) == IF i < Len(hist) THEN hist[i + 1].lex_before ELSE lex.end

\* token i lies between a successfully parsed body-opener and the next end marker
InsideBody(i) ==
    \E j \in 1..(i - 1) :
        /\ hist[j].res = "body_open"
        /\ \A k \in (j + 1)..(i - 1) : hist[k].tag # "EndBlock"

\* token k is the first end marker after token i
FirstEndAfter(i, k) ==
    /\ k \in (i + 1)..Len(hist)
    /\ hist[k].tag = "EndBlock"
    /\ \A m \in (i + 1)..(k - 1) : hist[m].tag # "EndBlock"

\* the offset in the output at which the text of token i belongs when it is
\* met outside a body: the output then stands for source[..lle_before]
OutOffset(i) == hist[i].out_before + (hist[i].start - hist[i].lle_before)

\* the iteration that opened the body which end marker i closes
OpenerStep(i) ==
    IF hist[i].tag = "EndBlock"
    THEN CHOOSE j \in 0..(i - 1) :
            /\ j > 0 => hist[j].res = "body_open"
            /\ \A m \in (j + 1)..(i - 1) : hist[m].res # "body_open"
    ELSE i

----------------------------------------------------------------------------
(* Claims *)

\* C1: an opener `{{` or `{%` met between a successfully parsed body-opener
\* and the end marker that closes it produces no descriptor and no
\* placeholder, and when the end marker arrives its raw text stands unchanged,
\* at its own offset, inside the body of the enclosing descriptor.
C1_NestedOpenersStayOpaque ==
    \A i \in 1..Len(hist) :
        (InsideBody(i) /\ hist[i].tag \in {"Body", "Normal"}) =>
            /\ NAfter(i) = hist[i].n_before
            /\ OutAfter(i) = hist[i].out_before
            /\ \A k \in (i + 1)..Len(hist) :
                 FirstEndAfter(i, k) =>
                    /\ NAfter(k) = hist[k].n_before + 1
                    /\ Len(shortcodes) > hist[k].n_before
                    /\ LET d == shortcodes[hist[k].n_before + 1]
                           lo == hist[k].start - Len(d.body[1])
                       IN  /\ d.body # <<>>
                           /\ lo <= hist[i].start
                           /\ hist[i].end <= hist[k].start
                           /\ Slice(d.body[1], hist[i].start - lo, hist[i].end - lo)
                                = Slice(source, hist[i].start, hist[i].end)

\* C1 witness: a finished scan in which a `{{` opener and a `{%` opener were
\* met inside a body that an end marker then closed
C1_Witness ==
    /\ pc = "done"
    /\ \E i, j, k \in 1..Len(hist) :
         /\ InsideBody(i) /\ hist[i].tag = "Normal"
         /\ InsideBody(j) /\ hist[j].tag = "Body"
         /\ FirstEndAfter(i, k) /\ FirstEndAfter(j, k)
         /\ hist[k].res = "end_close"

\* C2: every descriptor's span lies inside the rewritten output, is exactly
\* one placeholder wide, and the output reads `{{SC()}}` there, for
\* self-closing and for body-carrying descriptors alike.
C2_SpanIsPlaceholder ==
    \A k \in 1..Len(shortcodes) :
        LET d == shortcodes[k]
        IN  /\ d.span.end - d.span.start = PlaceholderLen
            /\ d.span.start >= 0
            /\ d.span.end <= Len(output_str)
            /\ Slice(output_str, d.span.start, d.span.end) = SHORTCODE_PLACEHOLDER

\* C2 witness: a finished scan with a self-closing and a body-carrying
\* descriptor, the latter behind copied text
C2_Witness ==
    /\ pc = "done"
    /\ \E k, m \in 1..Len(shortcodes) :
         /\ shortcodes[k].body = <<>>
         /\ shortcodes[m].body # <<>>
         /\ shortcodes[m].span.start > PlaceholderLen

\* C3: the descriptors stand in the order of their placeholders in the
\* output, which is the source order of their opening markers: consecutive
\* spans do not overlap, each span starts where the opener's placeholder was
\* written, and the openers' source offsets increase.
C3_DescriptorsInOrder ==
    /\ \A k \in 1..(Len(shortcodes) - 1) :
         shortcodes[k].span.end <= shortcodes[k + 1].span.start
    /\ \A k \in 1..Len(shortcodes) :
         \E i \in 1..Len(hist) :
            /\ hist[i].n_before = k - 1
            /\ NAfter(i) = k
            /\ OpenerStep(i) > 0
            /\ shortcodes[k].span.start = OutOffset(OpenerStep(i))
            /\ \A i2 \in 1..Len(hist) :
                 (hist[i2].n_before = k /\ NAfter(i2) = k + 1 /\ OpenerStep(i2) > 0) =>
                    hist[OpenerStep(i)].start < hist[OpenerStep(i2)].start

\* C3 witness: a finished scan with three descriptors, a body-carrying one
\* between two self-closing ones
C3_Witness ==
    /\ pc = "done"
    /\ Len(shortcodes) >= 3
    /\ shortcodes[1].body = <<>>
    /\ shortcodes[2].body # <<>>
    /\ shortcodes[3].body = <<>>

\* C4: the body of a body-carrying descriptor is the source text from the
\* byte after the `%}` that closes its opener, the first `%}` after the
\* opener token, up to the first byte of the end marker that closed it.
C4_BodyIsExactSlice ==
    \A n \in 1..Len(shortcodes) :
        shortcodes[n].body # <<>> =>
            \E k \in 1..Len(hist) :
                /\ hist[k].n_before = n - 1
                /\ NAfter(k) = n
                /\ hist[k].tag = "EndBlock"
                /\ OpenerStep(k) > 0
                /\ LET body == shortcodes[n].body[1]
                       o == OpenerStep(k)
                       hi == hist[k].start
                       lo == hi - Len(body)
                   IN  /\ lo >= hist[o].end + 2
                       /\ Slice(source, lo - 2, lo) = <<"%", "}">>
                       /\ \A q \in hist[o].end..(lo - 3) :
                            ~(At(source, q) = "%" /\ At(source, q + 1) = "}")
                       /\ body = Slice(source, lo, hi)
                       /\ EndBlockEnd(source, hi) = hist[k].end

\* C4 witness: a finished scan with a body-carrying descriptor behind copied
\* text whose body holds text and a nested opener
C4_Witness ==
    /\ pc = "done"
    /\ \E n \in 1..Len(shortcodes) :
         /\ shortcodes[n].body # <<>>
         /\ Len(shortcodes[n].body[1]) > 1
         /\ shortcodes[n].span.start > 0
         /\ \E i \in 1..Len(hist) : hist[i].res = "in_body"

\* C5: no slice and no subtraction of fetch_shortcodes fails: the copy cursor
\* never exceeds the start of the next token nor the source length, and
\* body_start never exceeds the start of the end marker that closes the body.
C5_Total ==
    /\ pc # "panic"
    /\ pc = "loop" =>
          /\ last_lex_end <= Tok.start
          /\ last_lex_end <= Len(source)
          /\ (current_body # <<>> /\ Tok.tag = "EndBlock") =>
                current_body[1].body_start <= Tok.start

\* C5 witness: a finished scan that took a failed attempt, a directive whose
\* closer lies behind another opener, and a closed body
C5_Witness ==
    /\ pc = "done"
    /\ \E i, j \in 1..Len(hist) :
         /\ hist[i].res \in {"mismatch", "tag_error"}
         /\ hist[j].res = "end_close"
    /\ \E i \in 1..Len(hist) :
         hist[i].res = "normal" /\ LexAfter(i) > hist[i].end + 5

\* a directive can be parsed at offset p of s: an opener, a tag and the closer of its style
DirectiveAt(s, p) ==
    /\ At(s, p) = "{"
    /\ LET t == OpenersAt(s, p)
           in == InnerTagParse(s, t.end)
           c == ClosersNext(s, in.end)
       IN  /\ t.tag \in {"Body", "Normal"}
           /\ in.ok
           /\ c.tag = t.tag

\* C6: a source in which no opener parses into a directive comes back
\* byte-identical, with no descriptor.
C6_NoDirectiveIdentity ==
    (pc = "done" /\ \A p \in 0..(Len(source) - 1) : ~DirectiveAt(source, p)) =>
        /\ output_str = source
        /\ shortcodes = <<>>

\* C6 witness: a finished scan of a source that holds openers and an end
\* marker but no directive
C6_Witness ==
    /\ pc = "done"
    /\ \A p \in 0..(Len(source) - 1) : ~DirectiveAt(source, p)
    /\ \E i, j \in 1..Len(hist) :
         /\ hist[i].res = "mismatch"
         /\ hist[j].res = "end_spurious"
         /\ i < j

\* token i is an opener outside any body whose attempt fails: the tag parser
\* rejects what follows it, or the closer found is of the other style
FailedAttempt(i) ==
    /\ hist[i].tag \in {"Body", "Normal"}
    /\ ~hist[i].body_before
    /\ LET in == InnerTagParse(source, hist[i].end)
           c == ClosersNext(source, in.end)
       IN  \/ ~in.ok
           \/ c.tag \in {"Body", "Normal"} /\ c.tag # hist[i].tag

\* the text of token i stands verbatim in the output at its offset
CopiedVerbatim(i) ==
    /\ OutOffset(i) + (hist[i].end - hist[i].start) <= Len(output_str)
    /\ Slice(output_str, OutOffset(i), OutOffset(i) + (hist[i].end - hist[i].start))
         = Slice(source, hist[i].start, hist[i].end)

\* C7: a failed attempt outside a body adds no descriptor and no placeholder
\* (the output grows by the text before the opener only), opens no body,
\* leaves the copy cursor at the opener, so that the opener's text is in the
\* output verbatim when the scan is done, and leaves the lexer right after
\* the opener.
C7_FailedAttemptDiscarded ==
    \A i \in 1..Len(hist) :
        FailedAttempt(i) =>
            /\ NAfter(i) = hist[i].n_before
            /\ OutAfter(i) = OutOffset(i)
            /\ ~BodyAfter(i)
            /\ LleAfter(i) = hist[i].start
            /\ LexAfter(i) = hist[i].end
            /\ pc = "done" => CopiedVerbatim(i)

\* C7 witness: a finished scan with a `{{ .. %}` attempt, then an attempt the
\* tag parser rejects, then a located directive
C7_Witness ==
    /\ pc = "done"
    /\ \E i, j, k \in 1..Len(hist) :
         /\ i < j /\ j < k
         /\ FailedAttempt(i) /\ hist[i].res = "mismatch"
         /\ FailedAttempt(j) /\ hist[j].res = "tag_error"
         /\ hist[k].res = "normal"

\* the offsets of s at which it reads `{{SC()}}`
PlaceholdersIn(s) ==
    {p \in 0..(Len(s) - PlaceholderLen) : Slice(s, p, p + PlaceholderLen) = SHORTCODE_PLACEHOLDER}

\* the offsets of the output at which the scan wrote a placeholder
PlaceholdersWritten ==
    {OutOffset(i) : i \in {j \in 1..Len(hist) : hist[j].res \in {"normal", "body_open"}}}

\* the part of C8 that does not count: no descriptor for the open body, its
\* placeholder in the output, then the rest of the source verbatim
OrphanPlaceholder ==
    LET item == current_body[1]
        ob == item.openblock_span
    IN  /\ \A k \in 1..Len(shortcodes) : shortcodes[k].span # ob
        /\ ob.end <= Len(output_str)
        /\ Slice(output_str, ob.start, ob.end) = SHORTCODE_PLACEHOLDER
        /\ output_str = Slice(output_str, 0, ob.end)
                          \o Slice(source, item.body_start, Len(source))

C9_SpuriousEndDiscarded ==
    /\ pc # "panic"
    /\ \A i \in 1..Len(hist) :
         (hist[i].tag = "EndBlock" /\ ~hist[i].body_before) =>
            /\ NAfter(i) = hist[i].n_before
            /\ OutAfter(i) = hist[i].out_before
            /\ LleAfter(i) = hist[i].lle_before
            /\ ~BodyAfter(i)
            /\ pc = "done" => CopiedVerbatim(i)

\* C9 witness: a finished scan with an end marker outside any body, behind
\* text and before a located directive
C9_Witness ==
    /\ pc = "done"
    /\ \E i, j \in 1..Len(hist) :
         /\ hist[i].tag = "EndBlock" /\ ~hist[i].body_before
         /\ hist[i].start > hist[i].lle_before
         /\ i < j
         /\ hist[j].res = "normal"

\* |new_length - original_length|
EditDelta == IF new_length >= original_length
             THEN new_length - original_length
             ELSE original_length - new_length

\* the span the call started with, moved by EditDelta in the direction of the edit
ShiftedSpan ==
    IF new_length > original_length
    THEN [start |-> span0.start + EditDelta, end |-> span0.end + EditDelta]
    ELSE [start |-> span0.start - EditDelta, end |-> span0.end - EditDelta]

\* the edit lies before the span and shrinks the text by more than span.start
ShiftUnderflows ==
    /\ position < span0.start
    /\ new_length <= original_length
    /\ original_length - new_length > span0.start

\* C10 as stated: for every span and every (position, original_length,
\* new_length) the call returns, with the span shifted by
\* |new_length - original_length| when position < span.start and unchanged
\* when position is within or after the span.
C10_AsStated ==
    upc \in {"returned", "panic"} =>
        /\ upc = "returned"
        /\ position < span0.start => span = ShiftedSpan
        /\ position >= span0.start => span = span0

\* C10 amended: the call fails exactly when position < span.start and
\* original_length - new_length > span.start; otherwise it returns, with the
\* span shifted by |new_length - original_length| (right when new_length >
\* original_length, left otherwise, width preserved) when position <
\* span.start, and unchanged when position is within or after the span.
C10_UpdateOnSourceInsert ==
    upc \in {"returned", "panic"} =>
        /\ upc = "panic" <=> ShiftUnderflows
        /\ upc = "returned" =>
              /\ position < span0.start =>
                    /\ span = ShiftedSpan
                    /\ span.end - span.start = span0.end - span0.start
              /\ position >= span0.start => span = span0

\* C10 witness: the call returned a non-empty span shifted to the left
C10_Witness ==
    /\ upc = "returned"
    /\ position < span0.start
    /\ new_length < original_length
    /\ span0.start < span0.end
    /\ span.start = span0.start - EditDelta
    /\ span.start > 0

----------------------------------------------------------------------------
(* Claims C11 - C19 *)

\* C11: range_shift returns None exactly when the shift is to the left and
\* range.start < translation; in every other case it returns the range with
\* both start and end moved by translation in the requested direction, so the
\* width is preserved.
C11_RangeShift ==
    \A i \in 1..Len(shift_call) :
        LET c == shift_call[i]
            signed == IF c.do_shift_right THEN c.translation ELSE 0 - c.translation
        IN  /\ ~c.result.some <=> (~c.do_shift_right /\ span0.start < c.translation)
            /\ c.result.some =>
                  /\ c.result.range.start = span0.start + signed
                  /\ c.result.range.end = span0.end + signed
                  /\ c.result.range.end - c.result.range.start = span0.end - span0.start
                  /\ span = c.result.range
            /\ ~c.result.some => upc = "shift_panic"

\* C11 witness: a left shift by exactly range.start succeeded and moved a
\* non-empty range down to offset 0
C11_Witness ==
    /\ upc = "shifted"
    /\ Len(shift_call) = 1
    /\ ~shift_call[1].do_shift_right
    /\ shift_call[1].translation = span0.start
    /\ span0.start > 0
    /\ span0.start < span0.end
    /\ span.start = 0

\* C12: a body opened by a successfully parsed body-opener is closed by the
\* first end marker that follows it, even when further body-openers occur
\* inside: every token in between is skipped, the end marker emits exactly one
\* descriptor, the opener's, whose body runs from the opener's closer up to
\* that end marker (raw text of inner openers included), and a further end
\* marker with no body-opener before it is left as literal text. For the
\* source open, open, text, end, end of tests::embedding_bodies: one
\* descriptor with body "{% a() %}Wow!" and the output placeholder + "{% end %}".
C12_FirstEndCloses ==
    /\ \A i \in 1..Len(hist) : \A k \in 1..Len(hist) :
          (hist[i].res = "body_open" /\ FirstEndAfter(i, k)) =>
             /\ hist[k].res = "end_close"
             /\ \A m \in (i + 1)..(k - 1) :
                   /\ hist[m].res = "in_body"
                   /\ NAfter(m) = hist[m].n_before
                   /\ OutAfter(m) = hist[m].out_before
             /\ NAfter(k) = hist[i].n_before + 1
             /\ shortcodes[NAfter(k)].body = <<Slice(source, LexAfter(i), hist[k].start)>>
             /\ shortcodes[NAfter(k)].span =
                   [start |-> OutAfter(i) - PlaceholderLen, end |-> OutAfter(i)]
             /\ \A k2 \in 1..Len(hist) :
                   (/\ FirstEndAfter(k, k2)
                    /\ \A m \in (k + 1)..(k2 - 1) : hist[m].res # "body_open") =>
                       /\ hist[k2].res = "end_spurious"
                       /\ NAfter(k2) = hist[k2].n_before
                       /\ pc = "done" => CopiedVerbatim(k2)
    /\ (pc = "done" /\ source = EmbeddingBodies) =>
          /\ Len(shortcodes) = 1
          /\ shortcodes[1].name = <<"a">>
          /\ shortcodes[1].span = [start |-> 0, end |-> PlaceholderLen]
          /\ shortcodes[1].body =
                <<(<<"{", "%", " ", "a", "(", ")", " ", "%", "}", "W", "o", "w", "!">>)>>
          /\ output_str = SHORTCODE_PLACEHOLDER \o
                          <<"{", "%", " ", "e", "n", "d", " ", "%", "}">>

\* C12 witness: a finished scan of open, open, text, end, end: the inner
\* opener was skipped, the first end marker closed the body behind the text,
\* and the second end marker met no open body
C12_Witness ==
    /\ pc = "done"
    /\ Len(shortcodes) = 1
    /\ \E i, j, k, k2 \in 1..Len(hist) :
         /\ i < j /\ j < k /\ k < k2
         /\ hist[i].res = "body_open"
         /\ hist[j].res = "in_body" /\ hist[j].tag = "Body"
         /\ hist[k].res = "end_close" /\ FirstEndAfter(i, k)
         /\ hist[k].start > LexAfter(j)
         /\ hist[k2].res = "end_spurious" /\ FirstEndAfter(k, k2)

\* a closer `%}` or `}}` stands at offset p behind optional whitespace only
CloserFollowsDirectly(s, p) ==
    LET w == SkipWhitespace(s, p)
    IN  \/ At(s, w) = "%" /\ At(s, w + 1) = "}"
        \/ At(s, w) = "}" /\ At(s, w + 1) = "}"

\* iteration i is an attempt outside a body whose tag parsed and whose closer
\* is not the next thing behind the tag apart from whitespace
OtherTextBeforeCloser(i) ==
    /\ hist[i].tag \in {"Body", "Normal"}
    /\ ~hist[i].body_before
    /\ LET in == InnerTagParse(source, hist[i].end)
       IN  in.ok /\ ~CloserFollowsDirectly(source, in.end)

\* C13: once the tag parser has consumed `name(args)`, the closer must be the
\* next thing apart from optional whitespace: if any other text stands between
\* the closing parenthesis and `}}` / `%}`, no text is skipped to reach a later
\* closer and the attempt is aborted: no descriptor, no placeholder, no body.
C13_AsStated ==
    \A i \in 1..Len(hist) :
        OtherTextBeforeCloser(i) =>
            /\ hist[i].res \notin {"normal", "body_open"}
            /\ NAfter(i) = hist[i].n_before
            /\ OutAfter(i) = hist[i].out_before + (hist[i].start - hist[i].lle_before)
            /\ ~BodyAfter(i)

\* C13 divergence reached: "{{ c()x }}" is scanned to the end, the text `x `
\* before the closer was skipped, and the tag came back as a descriptor with
\* the placeholder as the whole output
C13_Witness ==
    /\ pc = "done"
    /\ source = TextBeforeCloser
    /\ OtherTextBeforeCloser(1)
    /\ hist[1].res = "normal"
    /\ Len(shortcodes) = 1
    /\ shortcodes[1].name = <<"c">>
    /\ output_str = SHORTCODE_PLACEHOLDER

\* the end-marker iteration that emitted descriptor n (0 when n has no body)
EmittedAt(n) ==
    IF \E k \in 1..Len(hist) : hist[k].res = "end_close" /\ NAfter(k) = n
    THEN CHOOSE k \in 1..Len(hist) : hist[k].res = "end_close" /\ NAfter(k) = n
    ELSE 0

\* the source offsets of the body of descriptor n
BodyOffsets(n) ==
    IF shortcodes[n].body = <<>> \/ EmittedAt(n) = 0
    THEN {}
    ELSE (hist[EmittedAt(n)].start - Len(shortcodes[n].body[1]))..(hist[EmittedAt(n)].start - 1)

\* the name of the directive that starts at offset p
NameAt(s, p) == InnerTagParse(s, OpenersAt(s, p).end).name

TitleWasRead ==
    \/ np_pc \in {"check", "mkdir", "write"}
    \/ /\ np_pc = "returned"
       /\ np_err \notin {<<"Site::new failed">>, <<"read_line_with_prompt failed">>}

\* C15: newpost bails with the error "No title specified" when the entered
\* title is empty, and then neither the content directory nor any post file
\* is created; a file is created only after a non-empty title was read, and
\* it is named <date>-<title>.md.
C15_EmptyTitleCreatesNothing ==
    /\ (TitleWasRead /\ Len(title) = 0) =>
          /\ np_pc \in {"check", "returned"}
          /\ np_pc = "returned" => np_err = <<"No title specified">>
          /\ fs = fs0
          /\ written = {}
    /\ written # {} =>
          /\ TitleWasRead
          /\ Len(title) > 0
          /\ written = {file_name(date_str, title)}
          /\ Len(date_str) = 10
          /\ fs.dir
          /\ written \subseteq fs.files
    /\ fs.files # fs0.files => written # {}

\* C15 witness: an empty title was read and newpost has returned the error,
\* with no content directory on the disk
C15_Witness ==
    /\ np_pc = "returned"
    /\ np_err = <<"No title specified">>
    /\ Len(title) = 0
    /\ ~fs.dir

\* the recognized occurrence that opener iteration i starts: from the opener
\* through the closer for a self-closing directive and for a body-opener no
\* end marker follows, through the end marker for a closed body
Occurrence(i) ==
    LET closer == ClosersNext(source, InnerTagParse(source, hist[i].end).end)
        ends == {k \in 1..Len(hist) : FirstEndAfter(i, k)}
    IN  [start |-> hist[i].start,
         end |-> IF hist[i].res = "body_open" /\ ends # {}
                 THEN hist[CHOOSE k \in ends : TRUE].end
                 ELSE closer.end]

\* the recognized occurrences of a scan
Occurrences ==
    {Occurrence(i) : i \in {j \in 1..Len(hist) : hist[j].res \in {"normal", "body_open"}}}

\* the source from offset p on, each occurrence of occ replaced by one placeholder
RECURSIVE Rewritten(_, _)
Rewritten(occ, p) ==
    IF p >= Len(source)
    THEN <<>>
    ELSE IF \E o \in occ : o.start = p
    THEN LET o == CHOOSE o \in occ : o.start = p
         IN  SHORTCODE_PLACEHOLDER \o Rewritten(occ, o.end)
    ELSE <<At(source, p)>> \o Rewritten(occ, p + 1)

\* C16: the rewritten output equals the source with each recognized
\* occurrence replaced by one placeholder: the occurrences lie in the source
\* one behind the other, and every source byte outside them is in the output
\* exactly once and in source order.
C16_OutputIsRewrittenSource ==
    pc = "done" =>
        LET occ == Occurrences
        IN  /\ \A o \in occ : o.start < o.end /\ o.end <= Len(source)
            /\ \A o1, o2 \in occ : o1.start < o2.start => o1.end <= o2.start
            /\ output_str = Rewritten(occ, 0)
            /\ Len(output_str) = Len(source) + PlaceholderLen * Cardinality(occ)
                  - Cardinality({p \in 0..(Len(source) - 1) :
                                   \E o \in occ : o.start <= p /\ p < o.end})

\* C16 witness: a finished scan that replaced a self-closing directive and a
\* closed body holding text, and copied text in front of, between or behind them
C16_Witness ==
    /\ pc = "done"
    /\ \E i, j, k \in 1..Len(hist) :
         /\ hist[i].res = "normal"
         /\ hist[j].res = "body_open"
         /\ hist[k].res = "end_close" /\ FirstEndAfter(j, k)
    /\ Len(output_str) > 2 * PlaceholderLen
    /\ Cardinality(Occurrences) = 2

\* the Openers lexer stands further right after iteration i than before it
CursorMovedForward(i) ==
    /\ hist[i].lex_before < hist[i].end
    /\ hist[i].end <= LexAfter(i)
    /\ LexAfter(i) <= Len(source)

\* C17: the scan always terminates: every loop iteration moves the scan
\* cursor strictly forward, also after a failed or mismatched attempt where
\* the lexer is not replaced, so the number of iterations is bounded by the
\* length of the input, and the final copy step is eventually reached.
C17_Terminates ==
    /\ [](/\ \A i \in 1..Len(hist) : hist[i].res # "finish" => CursorMovedForward(i)
          /\ Len(hist) <= Len(source) + 1
          /\ pc # "panic")
    /\ <>(pc = "done" /\ hist[Len(hist)].res = "finish")

\* C17 witness: the final copy step was reached after a mismatched attempt,
\* behind which the scan went on to locate a directive
C17_Witness ==
    /\ pc = "done"
    /\ hist[Len(hist)].res = "finish"
    /\ \E i, j \in 1..(Len(hist) - 1) :
         /\ i < j
         /\ hist[i].res = "mismatch"
         /\ hist[j].res = "normal"
         /\ LexAfter(i) = hist[i].end

\* the span the end marker computes: the last PlaceholderLen bytes of the output
SpanAtEndMarker == [start |-> Len(output_str) - PlaceholderLen, end |-> Len(output_str)]

\* a step taken with a body open that leaves it open and stays in the loop: a token in the body
TokenInBody == current_body # <<>> /\ current_body' # <<>> /\ pc' = "loop"

\* a step that closes the open body: its end marker
BodyClosed == current_body # <<>> /\ current_body' = <<>>

\* C18: while a body is open, from the push until its end marker or the end
\* of input, no token changes the output buffer, the descriptor list or the
\* copy cursor (nor the open body); consequently the output still ends with
\* the body's placeholder, and at the end marker the span (output length -
\* placeholder length .. output length) equals the openblock_span recorded
\* when the placeholder was written, and is the span of the one descriptor
\* the end marker adds.
C18_BodyFrame ==
    /\ [][TokenInBody => UNCHANGED <<output_str, shortcodes, last_lex_end, current_body>>]_vars
    /\ []((current_body # <<>> /\ pc = "loop") =>
            /\ SpanAtEndMarker = current_body[1].openblock_span
            /\ Slice(output_str, SpanAtEndMarker.start, SpanAtEndMarker.end)
                 = SHORTCODE_PLACEHOLDER
            /\ last_lex_end = current_body[1].body_start)
    /\ [][BodyClosed =>
            /\ output_str' = output_str
            /\ Len(shortcodes') = Len(shortcodes) + 1
            /\ SubSeq(shortcodes', 1, Len(shortcodes)) = shortcodes
            /\ shortcodes'[Len(shortcodes')].span = SpanAtEndMarker
            /\ shortcodes'[Len(shortcodes')].span = current_body[1].openblock_span]_vars

\* C18 witness: an end marker has just closed a body that was opened behind
\* copied text and held a self-closing tag, which was skipped
C18_Witness ==
    /\ Len(hist) >= 3
    /\ hist[Len(hist)].res = "end_close"
    /\ hist[Len(hist) - 1].res = "in_body"
    /\ hist[Len(hist) - 1].tag = "Normal"
    /\ DirectiveAt(source, hist[Len(hist) - 1].start)
    /\ hist[Len(hist) - 2].res = "body_open"
    /\ shortcodes[Len(shortcodes)].span.start > 0

\* the edit lies entirely before the span the call started with
EditBeforeSpan == position + original_length <= span0.start

\* C19: update_on_source_insert never underflows (its unwrap never fails) for
\* an edit that lies entirely before the span, position + original_length <=
\* span.start, and then shifts the span by the change of length; it can fail
\* only when position < span.start and original_length - new_length >
\* span.start, and then the edited region reaches into or past the span.
C19_EditBeforeSpanNeverFails ==
    /\ (upc \in {"returned", "panic"} /\ EditBeforeSpan) =>
          /\ upc = "returned"
          /\ position < span0.start =>
                /\ span.start = span0.start + new_length - original_length
                /\ span.end = span0.end + new_length - original_length
                /\ span.start >= position + new_length
    /\ upc = "panic" =>
          /\ position < span0.start
          /\ original_length - new_length > span0.start
          /\ position + original_length > span0.start
          /\ span = span0

\* C19 witness: a shrinking edit that ends exactly where the span starts was
\* applied and the call returned with the span moved left, up against the edit
C19_Witness ==
    /\ upc = "returned"
    /\ position > 0
    /\ new_length < original_length
    /\ position + original_length = span0.start
    /\ span.start = position + new_length
    /\ span0.start < span0.end

====
